---- MODULE Spec2Model ----
(***************************************************************************)
(* Model of arxiv-satellite: the article enrichment units (translation,   *)
(* summarization, text normalisation, hashtag block) and the batch run    *)
(* of run.main (collect the matching entries of every feed, then post).   *)
(*                                                                         *)
(* A text is a sequence of characters, each a one-character string; a     *)
(* character that a string of this language cannot hold is written by its *)
(* code point, as "U+3000", and "K" stands for the five characters of the  *)
(* summary marker.  An optional value                                      *)
(* (Python None or a value, an unbound or a bound local) is a sequence of *)
(* length 0 or 1: None == <<>>, Some(v) == <<v>>.  A call's result is a    *)
(* record [raised, value]: raised = "none" when the call returned value.  *)
(* Time is counted in ticks, Resolution ticks to the second.              *)
(***************************************************************************)
EXTENDS Integers, Sequences, FiniteSets, TLC

VARIABLES
    op,        \* unit under call: the operation that was called last
    args,      \* its arguments
    env,       \* the outcomes of the external providers during that call
    res,       \* what the call did: [raised, value, ...]
    pc,        \* run.main: "idle", "collect", "post", "done", "raised"
    feeds,     \* run.main: the entries of each publisher's feed, in PUBLISH order
    nchan,     \* run.main: number of (client, channel) pairs zip() gives
    fi,        \* get_articles: index of the feed being read
    ei,        \* Publisher.get_articles: index of the entry being visited
    items,     \* list(target.get_articles(patterns)) built so far, None included
    articles,  \* run.get_articles: the list `articles`
    ai,        \* main: index of the article being posted
    ci,        \* main: index of the channel being posted to
    log        \* history of enrichment calls and post attempts, in order

unitVars == <<op, args, env, res>>
batchVars == <<pc, feeds, nchan, fi, ei, items, articles, ai, ci, log>>
vars == <<op, args, env, res, pc, feeds, nchan, fi, ei, items, articles, ai, ci, log>>

----------------------------------------------------------------------------
(* Bounds of the model *)

MaxDescription == 2   \* longest description handed to the translator
MaxText == 6          \* longest text the generative model returns
MaxTagText == 6       \* longest description handed to _set_tags
MaxElapsed == 140     \* longest provider call, in ticks
Resolution == 10      \* ticks to the second
MaxEntries == 2       \* most entries in one feed
MaxChannels == 2      \* most (client, channel) pairs
MaxEmphasisText == 9  \* longest marked-up text handed to format_summarize_for_blocks
MaxLineText == 4      \* longest text with line endings handed to it
MaxBodyText == 6      \* longest description handed to BlockCreator
TitleSpan == 3        \* titles are up to this much shorter or longer than the header limit

(* Program constants *)

PrimaryFloor == 12    \* sleep(max(int(12 - elapsed), 0) + 1)
LiteFloor == 6        \* sleep(max(int(6 - elapsed), 0) + 1)
RateLimitCode == 429  \* case 429
SummarizerArity == 1  \* ArticleSummarizer.__call__(self, link)
HeaderLimit == 150    \* if len(header) > 150, and i < 150

----------------------------------------------------------------------------
(* Values *)

None == <<>>
Some(v) == <<v>>

Strings(A, n) == UNION {[1..k -> A] : k \in 0..n}

Max(a, b) == IF a >= b THEN a ELSE b

Min(S) == CHOOSE x \in S : \A y \in S : x <= y

Returned(v) == [raised |-> "none", value |-> v]
Raised(e, v) == [raised |-> e, value |-> v]

----------------------------------------------------------------------------
(* Python string operations *)

\* str.replace(old, new): left to right, non-overlapping (old is not empty)
RECURSIVE Replace(_, _, _)
Replace(s, old, new) ==
    IF Len(s) < Len(old) THEN s
    ELSE IF SubSeq(s, 1, Len(old)) = old
         THEN new \o Replace(SubSeq(s, Len(old) + 1, Len(s)), old, new)
         ELSE <<s[1]>> \o Replace(Tail(s), old, new)

\* str.split(sep): the pieces between the non-overlapping occurrences of sep
RECURSIVE SplitFrom(_, _, _)
SplitFrom(s, sep, cur) ==
    IF Len(s) < Len(sep) THEN <<cur \o s>>
    ELSE IF SubSeq(s, 1, Len(sep)) = sep
         THEN <<cur>> \o SplitFrom(SubSeq(s, Len(sep) + 1, Len(s)), sep, <<>>)
         ELSE SplitFrom(Tail(s), sep, Append(cur, s[1]))

Split(s, sep) == SplitFrom(s, sep, <<>>)

\* the characters for which str.isspace() holds
Whitespace ==
    {"\t", "\n", "U+000B", "\f", "\r", "U+001C", "U+001D", "U+001E", "U+001F", " ",
     "U+0085", "U+00A0", "U+1680", "U+2000", "U+2001", "U+2002", "U+2003", "U+2004",
     "U+2005", "U+2006", "U+2007", "U+2008", "U+2009", "U+200A", "U+2028", "U+2029",
     "U+202F", "U+205F", "U+3000"}

RECURSIVE LStrip(_)
LStrip(s) == IF s # <<>> /\ s[1] \in Whitespace THEN LStrip(Tail(s)) ELSE s

RECURSIVE RStrip(_)
RStrip(s) ==
    IF s # <<>> /\ s[Len(s)] \in Whitespace THEN RStrip(SubSeq(s, 1, Len(s) - 1)) ELSE s

\* str.strip()
Strip(s) == RStrip(LStrip(s))

\* marker occurs in text at index i (1-based)
OccursAt(text, marker, i) ==
    /\ i >= 1
    /\ i + Len(marker) - 1 <= Len(text)
    /\ SubSeq(text, i, i + Len(marker) - 1) = marker

----------------------------------------------------------------------------
(* ArticleTranslator *)

\* translate_description after the try statement: bound by the try body when
\* DeepL returns, by the first handler when Microsoft returns, by the second
\* handler for any other exception of DeepL; left unbound when the first
\* handler itself raises.
TranslateLocal(description, a, b) ==
    CASE a.kind = "ok" -> Some(a.text)
      [] a.kind = "DeepLException" -> IF b.kind = "ok" THEN Some(b.text) ELSE None
      [] OTHER -> Some(description)

\* ArticleTranslator.__call__: `finally: return translate_description` drops the
\* exception in flight and reads the local; reading it unbound raises.
ArticleTranslator(description, a, b) ==
    LET local == TranslateLocal(description, a, b)
    IN  IF local = None THEN Raised("UnboundLocalError", <<>>)
        ELSE Returned(local[1])

----------------------------------------------------------------------------
(* ArticleSummarizer *)

\* the default marker of extract_after_last, an asterisk, five Japanese
\* characters ("research overview") and an asterisk; "K" stands for the five
Marker == <<"*", "K", "*">>

\* slackbot_settings.PROMPT, as one token
Prompt == <<"PROMPT">>

\* GenerateContentConfig(tools=[{"url_context": {}}], temperature=0.0)
Config == [tools |-> <<"url_context">>, temperature |-> 0]

PrimaryModel == "gemini-2.5-flash"
LiteModel == "gemini-2.5-flash-lite"

\* getattr(e, "code", None) of an APIError that carries no code
NoCode == 0

\* int(x) of the quotient a / b, b > 0: truncation toward zero
TruncDiv(a, b) == IF a >= 0 THEN a \div b ELSE -((-a) \div b)

\* the variant that truncates the elapsed time before the subtraction
SleepTruncElapsed(floor, elapsed) == Max(floor - (elapsed \div Resolution), 0) + 1

\* max(int(floor - elapsed), 0) + 1, in seconds; elapsed is in ticks
RateLimitSleep(floor, elapsed) ==
    Max(TruncDiv(floor * Resolution - elapsed, Resolution), 0) + 1

\* the variant that retries whatever the code of the APIError
RetryAnyCode(code) == TRUE

\* match getattr(e, "code", None): case 429
Retryable(code) == code = RateLimitCode

\* client.models.generate_content(model=..., contents=f"{PROMPT}{url}", config=config)
Request(model, url) == [model |-> model, contents |-> Prompt \o url, config |-> Config]

\* gemini_summarize(url).  g.primary and g.lite are the outcomes of the two
\* generate_content calls: [kind, text, code, elapsed] with kind "ok" (text is
\* response.text, possibly None), "APIError" (with its code) or "Exception".
\* The result also lists the requests issued and the sleeps taken, in order.
GeminiSummarize(url, g) ==
    LET first == Request(PrimaryModel, url)
        second == Request(LiteModel, url)
    IN  CASE g.primary.kind = "ok" ->
               [raised |-> "none", value |-> g.primary.text, requests |-> <<first>>,
                sleeps |-> <<RateLimitSleep(PrimaryFloor, g.primary.elapsed)>>]
          [] g.primary.kind = "APIError" ->
               IF Retryable(g.primary.code)
               THEN IF g.lite.kind = "ok"
                    THEN [raised |-> "none", value |-> g.lite.text,
                          requests |-> <<first, second>>,
                          sleeps |-> <<RateLimitSleep(LiteFloor, g.lite.elapsed)>>]
                    ELSE [raised |-> g.lite.kind, value |-> None,
                          requests |-> <<first, second>>, sleeps |-> <<>>]
               ELSE [raised |-> "none", value |-> None, requests |-> <<first>>,
                     sleeps |-> <<>>]
          [] OTHER ->
               [raised |-> g.primary.kind, value |-> None, requests |-> <<first>>,
                sleeps |-> <<>>]

\* text.find(marker): the first index (1-based) at or after i, 0 when there is none
RECURSIVE FindFrom(_, _, _)
FindFrom(text, marker, i) ==
    IF i + Len(marker) - 1 > Len(text) THEN 0
    ELSE IF OccursAt(text, marker, i) THEN i
    ELSE FindFrom(text, marker, i + 1)

\* the variant that cuts at the first occurrence of the marker
ExtractAfterFirst(text, marker) ==
    LET idx == FindFrom(text, marker, 1)
    IN  IF idx = 0 THEN None ELSE Some(SubSeq(text, idx, Len(text)))

\* text.rfind(marker): the last index (1-based) at or before i, 0 when there is none
RECURSIVE RFindFrom(_, _, _)
RFindFrom(text, marker, i) ==
    IF i < 1 THEN 0
    ELSE IF OccursAt(text, marker, i) THEN i
    ELSE RFindFrom(text, marker, i - 1)

\* extract_after_last(text, marker)
ExtractAfterLast(text, marker) ==
    LET idx == RFindFrom(text, marker, Len(text) - Len(marker) + 1)
    IN  IF idx = 0 THEN None ELSE Some(SubSeq(text, idx, Len(text)))

\* re.sub(d d (.+?) d d, r"*\1*", s) for the one-character delimiter d: scanning
\* left to right, a match at the head is d d, then the shortest non-empty run
\* without a newline that is followed by d d; it is replaced by the run
\* between single asterisks and the scan resumes after the match.
RECURSIVE ReSubBold(_, _)
ReSubBold(s, d) ==
    IF s = <<>> THEN <<>>
    ELSE LET closing == {j \in 4..(Len(s) - 1) :
                            /\ s[j] = d
                            /\ s[j + 1] = d
                            /\ \A k \in 3..(j - 1) : s[k] # "\n"}
         IN  IF Len(s) >= 5 /\ s[1] = d /\ s[2] = d /\ closing # {}
             THEN LET j == Min(closing)
                  IN  <<"*">> \o SubSeq(s, 3, j - 1) \o <<"*">>
                        \o ReSubBold(SubSeq(s, j + 2, Len(s)), d)
             ELSE <<s[1]>> \o ReSubBold(Tail(s), d)

\* format_summarize_for_blocks(summary), summary optional
FormatSummarizeForBlocks(summary) ==
    IF summary = None THEN <<>>
    ELSE LET s == Strip(Replace(Replace(summary[1], <<"\r", "\n">>, <<"\n">>),
                                <<"\r">>, <<"\n">>))
         IN  ReSubBold(ReSubBold(s, "*"), "_")

\* ArticleSummarizer.__call__(link): every Exception of the try body leaves
\* summary None, and the finally clause returns the formatted summary.
ArticleSummarizer(link, g) ==
    LET s == GeminiSummarize(link, g)
        summary == IF s.raised # "none" THEN None
                   ELSE IF s.value = None THEN None
                   ELSE ExtractAfterLast(s.value[1], Marker)
    IN  [raised |-> "none", value |-> FormatSummarizeForBlocks(summary),
         requests |-> s.requests, sleeps |-> s.sleeps]

----------------------------------------------------------------------------
(* BlockCreator._set_tags *)

\* dict(type="text", text="#", style=dict(italic=True, code=True))
HashRun == [type |-> "text", text |-> <<"#">>, italic |-> TRUE, code |-> TRUE]

\* dict(type="text", text=tag, style=dict(italic=True, code=True))
TagRun(tag) == [type |-> "text", text |-> tag, italic |-> TRUE, code |-> TRUE]

\* dict(type="text", text=" "): no style
SpaceRun == [type |-> "text", text |-> <<" ">>, italic |-> FALSE, code |-> FALSE]

\* s[:-1]
DropLast(s) == IF s = <<>> THEN <<>> ELSE SubSeq(s, 1, Len(s) - 1)

\* tag_text: the last paragraph without its spaces, split at "#", empty pieces dropped
TagText(description) ==
    LET paragraphs == Split(description, <<"\n", "\n">>)
        last == paragraphs[Len(paragraphs)]
    IN  SelectSeq(Split(Replace(last, <<" ">>, <<>>), <<"#">>), LAMBDA t : Len(t) > 0)

\* sum([[tag, " ", "#"] for tag in tag_text], [])
RECURSIVE TagTriples(_)
TagTriples(tags) ==
    IF tags = <<>> THEN <<>>
    ELSE <<TagRun(tags[1]), SpaceRun, HashRun>> \o TagTriples(Tail(tags))

\* the variant that slices the whole list: ([#] + sum(...))[:-1]
TagElementsSliceAll(tags) == DropLast(<<HashRun>> \o TagTriples(tags))

\* the variant that also drops the space after the last tag: sum(...)[:-2]
TagElementsNoTrailing(tags) == <<HashRun>> \o DropLast(DropLast(TagTriples(tags)))

\* elements = [#] + sum(...)[:-1]: the slice applies to the sum only
TagElements(tags) == <<HashRun>> \o DropLast(TagTriples(tags))

\* _set_tags(description)
SetTags(description) ==
    [type |-> "rich_text",
     elements |-> <<[type |-> "rich_text_section",
                     elements |-> TagElements(TagText(description))]>>]

----------------------------------------------------------------------------
(* BlockCreator._set_header *)

\* dict(type="header", text=dict(type="plain_text", text=text))
HeaderBlock(text) == [type |-> "header", text |-> [type |-> "plain_text", text |-> text]]

\* the variant whose test is i <= 150
SpacesUpToLimit(header) ==
    {i \in 1..Len(header) : header[i] = " " /\ i - 1 <= HeaderLimit}

\* spaces = [i for i, ch in enumerate(header) if ch == " " and i < 150], as the
\* set of the 1-based positions i + 1
SpacesBelowLimit(header) ==
    {i \in 1..Len(header) : header[i] = " " /\ i - 1 < HeaderLimit}

\* _set_header(header): spaces[-1] is the largest index of the list and raises
\* IndexError on an empty list; header[:k] and header[k:] for its 0-based k
SetHeader(header) ==
    IF Len(header) > HeaderLimit
    THEN LET spaces == SpacesBelowLimit(header)
         IN  IF spaces = {} THEN Raised("IndexError", <<>>)
             ELSE LET last == CHOOSE i \in spaces : \A j \in spaces : j <= i
                  IN  Returned(<<HeaderBlock(SubSeq(header, 1, last - 1)),
                                 HeaderBlock(SubSeq(header, last, Len(header)))>>)
    ELSE Returned(<<HeaderBlock(header)>>)

----------------------------------------------------------------------------
(* BlockCreator._set_url, _set_description, __call__ *)

\* _set_url(url): a rich text block of one section holding the link
SetUrl(url) ==
    [type |-> "rich_text",
     elements |-> <<[type |-> "rich_text_section",
                     elements |-> <<[type |-> "link", url |-> url]>>]>>]

\* sep.join(parts)
RECURSIVE Join(_, _)
Join(parts, sep) ==
    IF parts = <<>> THEN <<>>
    ELSE IF Len(parts) = 1 THEN parts[1]
    ELSE parts[1] \o sep \o Join(Tail(parts), sep)

\* dict(title=s.split("\n")[0], text="\n".join(s.split("\n")[1:]))
DescriptionItem(s) ==
    LET lines == Split(s, <<"\n">>)
    IN  [title |-> lines[1], text |-> Join(Tail(lines), <<"\n">>)]

\* the variant that leaves out the items whose title or text is empty
DescriptionItemsNonEmpty(description) ==
    LET paragraphs == DropLast(Split(description, <<"\n", "\n">>))
        all == [k \in 1..Len(paragraphs) |-> DescriptionItem(paragraphs[k])]
        Kept(item) == item.title # <<>> /\ item.text # <<>>
    IN  SelectSeq(all, Kept)

\* description_items: one item for each s of description.split("\n\n")[:-1]
DescriptionItems(description) ==
    LET paragraphs == DropLast(Split(description, <<"\n", "\n">>))
    IN  [k \in 1..Len(paragraphs) |-> DescriptionItem(paragraphs[k])]

\* the rich_text_section of one item: the title in bold between two line
\* feeds, then the text
DescriptionSection(item) ==
    [type |-> "rich_text_section",
     elements |-> <<[type |-> "text",
                     text |-> <<"\n">> \o item.title \o <<"\n">>,
                     style |-> [bold |-> TRUE]],
                    [type |-> "text", text |-> item.text]>>]

\* _set_description(description)
SetDescription(description) ==
    LET description_items == DescriptionItems(description)
    IN  [type |-> "rich_text",
         elements |-> [k \in 1..Len(description_items) |->
                          DescriptionSection(description_items[k])]]

\* BlockCreator.__call__(article): an exception of _set_header leaves the call
BlockCreator(article) ==
    LET divider == [type |-> "divider"]
        header == SetHeader(article.title)
        url == SetUrl(article.title_link)
        tags == SetTags(article.description)
        description == SetDescription(article.description)
    IN  IF header.raised # "none" THEN Raised(header.raised, <<>>)
        ELSE Returned(<<divider>> \o header.value \o <<url, tags, description>>)

----------------------------------------------------------------------------
(* Publisher: parse_title, extract_keyword, format_article *)

\* the greatest element of a set of integers that is not empty
Greatest(S) == CHOOSE x \in S : \A y \in S : y <= x

\* the number of characters of s before its first line feed: what `.` can match
LineLength(s) ==
    IF \E i \in DOMAIN s : s[i] = "\n"
    THEN Min({i \in DOMAIN s : s[i] = "\n"}) - 1
    ELSE Len(s)

Digits == {"0", "1", "2", "3", "4", "5", "6", "7", "8", "9"}

ArXivTag == <<"a", "r", "X", "i", "v", ":">>
AbstractTag == <<"A", "b", "s", "t", "r", "a", "c", "t", ":">>
ParagraphEnd == <<"<", "/", "p", ">">>
AnchorOpen == <<"<", "a", " ", "h", "r", "e", "f", "=">>
AnchorClose == <<"<", "/", "a", ">">>
Http == <<"h", "t", "t", "p", ":">>
Https == <<"h", "t", "t", "p", "s", ":">>

\* ArXiv.parse_title: re.sub(r" .(arXiv:.*)", "", title): a space, one character
\* that is not a line feed, "arXiv:" and the rest of the line are cut out
RECURSIVE ArXivParseTitle(_)
ArXivParseTitle(title) ==
    IF title = <<>> THEN <<>>
    ELSE IF /\ title[1] = " "
            /\ LineLength(Tail(title)) >= 1 + Len(ArXivTag)
            /\ OccursAt(title, ArXivTag, 3)
         THEN ArXivParseTitle(SubSeq(title, 2 + LineLength(Tail(title)), Len(title)))
         ELSE <<title[1]>> \o ArXivParseTitle(Tail(title))

\* MDPI.parse_title: re.sub(r".*[0-9]: ", "", title): what a line holds up to
\* its last digit followed by ": " is cut out, these three characters included
RECURSIVE MDPIParseTitle(_)
MDPIParseTitle(title) ==
    IF title = <<>> THEN <<>>
    ELSE LET ends == {k \in 1..(LineLength(title) - 2) :
                         title[k] \in Digits /\ title[k + 1] = ":" /\ title[k + 2] = " "}
         IN  IF ends = {} THEN <<title[1]>> \o MDPIParseTitle(Tail(title))
             ELSE MDPIParseTitle(SubSeq(title, Greatest(ends) + 3, Len(title)))

\* re.sub(r"<a href=.*\">", "", author): from "<a href=" to the last `">` of
\* the line
RECURSIVE StripAnchors(_)
StripAnchors(author) ==
    IF author = <<>> THEN <<>>
    ELSE LET ends == {k \in (Len(AnchorOpen) + 1)..(LineLength(author) - 1) :
                         author[k] = "\"" /\ author[k + 1] = ">"}
         IN  IF OccursAt(author, AnchorOpen, 1) /\ ends # {}
             THEN StripAnchors(SubSeq(author, Greatest(ends) + 2, Len(author)))
             ELSE <<author[1]>> \o StripAnchors(Tail(author))

\* parse_title of the publisher
ParseTitle(publisher, title) ==
    IF publisher = "ArXiv" THEN ArXivParseTitle(title) ELSE MDPIParseTitle(title)

\* ArXiv.extract_keyword(article): split("Abstract:")[1] raises IndexError
\* when the description does not hold "Abstract:"
ArXivExtractKeyword(article) ==
    LET title == ArXivParseTitle(article.title)
        link == Replace(article.link, Http, Https)
        parts == Split(article.description, AbstractTag)
        description ==
            Join(Split(Split(Replace(parts[2], <<"\n">>, <<>>), ParagraphEnd)[1], <<" ">>),
                 <<" ">>)
        names == Split(article.author, <<",">>)
        authors ==
            Join([k \in 1..Len(names) |-> Replace(StripAnchors(names[k]), AnchorClose, <<>>)],
                 <<",", " ">>)
    IN  IF Len(parts) < 2 THEN Raised("IndexError", <<>>)
        ELSE Returned(<<title, link, authors, description>>)

\* MDPI.extract_keyword(article)
MDPIExtractKeyword(article) ==
    LET title == MDPIParseTitle(article.title)
        link == article.link
        description == Join(Split(Replace(article.summary, <<"'">>, <<>>), <<" ">>), <<" ">>)
        authors == Join(article.authors, <<",", " ">>)
    IN  Returned(<<title, link, authors, description>>)

\* self.extract_keyword(article)
ExtractKeyword(publisher, article) ==
    IF publisher = "ArXiv" THEN ArXivExtractKeyword(article)
    ELSE MDPIExtractKeyword(article)

\* p.search(title) is not None, for a pattern that is a plain keyword
Search(p, title) == \E i \in 1..Len(title) : OccursAt(title, p, i)

\* bool([p.search(title) for p in patterns if p.search(title) is not None])
Matches(patterns, title) == \E k \in DOMAIN patterns : Search(patterns[k], title)

\* the call ArticleSummarizer()(*arguments): __call__ takes one argument
\* besides self, any other number is a TypeError raised by the call itself
CallSummarizer(arguments, g) ==
    IF Len(arguments) # SummarizerArity
    THEN [raised |-> "TypeError", value |-> <<>>, requests |-> <<>>, sleeps |-> <<>>]
    ELSE ArticleSummarizer(arguments[1], g)

\* format_article(article, patterns) of the publisher; e = [gemini, a, b] are
\* the providers' outcomes
FormatArticle(publisher, article, patterns, e) ==
    LET kw == ExtractKeyword(publisher, article)
        summary == CallSummarizer(<<kw.value[2], patterns>>, e.gemini)
        translated == IF Len(summary.value) = 0
                      THEN ArticleTranslator(summary.value, e.a, e.b)
                      ELSE Returned(summary.value)
    IN  IF kw.raised # "none" THEN Raised(kw.raised, <<>>)
        ELSE IF summary.raised # "none" THEN Raised(summary.raised, <<>>)
        ELSE IF translated.raised # "none" THEN Raised(translated.raised, <<>>)
        ELSE Returned([title |-> kw.value[1], title_link |-> kw.value[2],
                       author |-> kw.value[3], description |-> translated.value])

----------------------------------------------------------------------------
(* The inputs of the unit calls *)

Descriptions == Strings({"a", "b"}, MaxDescription)
TranslatedTexts == {<<"x">>, <<"y">>}
Links == {<<"u">>, <<"v">>}
SummaryTexts == Strings({"*", "K", "a"}, MaxText)
TagDescriptions == Strings({"#", " ", "\n", "a", "b"}, MaxTagText)
Codes == {RateLimitCode, 500, NoCode}
Elapsed == 0..MaxElapsed

NotCalled == [kind |-> "notcalled", text |-> <<>>]

DeeplOutcomes ==
    {[kind |-> "ok", text |-> t] : t \in TranslatedTexts}
        \cup {[kind |-> "DeepLException", text |-> <<>>], [kind |-> "Exception", text |-> <<>>]}

MicrosoftOutcomes ==
    {[kind |-> "ok", text |-> t] : t \in TranslatedTexts}
        \cup {[kind |-> "Exception", text |-> <<>>]}

\* the translator calls provider B only after provider A raised DeepLException
TranslatorEnvs ==
    {e \in [a : DeeplOutcomes, b : MicrosoftOutcomes \cup {NotCalled}] :
        (e.b = NotCalled) <=> (e.a.kind # "DeepLException")}

GeminiNotCalled == [kind |-> "notcalled", text |-> None, code |-> NoCode, elapsed |-> 0]

GeminiOutcomes(texts, times) ==
    {[kind |-> "ok", text |-> t, code |-> NoCode, elapsed |-> d] : t \in texts, d \in times}
        \cup {[kind |-> "APIError", text |-> None, code |-> c, elapsed |-> 0] : c \in Codes}
        \cup {[kind |-> "Exception", text |-> None, code |-> NoCode, elapsed |-> 0]}

\* the lighter model is called only after the primary one raised APIError 429
GeminiEnvs(texts, times) ==
    {g \in [primary : GeminiOutcomes(texts, times),
            lite : GeminiOutcomes(texts, times) \cup {GeminiNotCalled}] :
        (g.lite = GeminiNotCalled)
            <=> ~(g.primary.kind = "APIError" /\ g.primary.code = RateLimitCode)}

\* response.text: absent, or a text
OptionalTexts(texts) == {None} \cup {Some(t) : t \in texts}

\* summaries with emphasis markup, and summaries with line endings and blanks
EmphasisTexts == Strings({"*", "_", "a"}, MaxEmphasisText)
LineTexts == Strings({"\r", "\n", " ", "\f", "U+3000", "a"}, MaxLineText)

\* a title of the given length with spaces at the given positions (1-based)
Title(length, spaces) == [i \in 1..length |-> IF i \in spaces THEN " " ELSE "a"]

\* titles around the header limit, with spaces on either side of it, and short ones
TitleLengths ==
    (0..TitleSpan) \cup ((HeaderLimit - TitleSpan)..(HeaderLimit + TitleSpan))
SpaceSpots == {1, HeaderLimit - 1, HeaderLimit, HeaderLimit + 1, HeaderLimit + 2}
Titles == {Title(n, sp \cap (1..n)) : n \in TitleLengths, sp \in SUBSET SpaceSpots}

\* titles of one header, of two headers, and with no space to split at
BlockTitles ==
    {Title(1, {}), Title(HeaderLimit, {}),
     Title(HeaderLimit + 1, {HeaderLimit}), Title(HeaderLimit + 1, {HeaderLimit + 1}),
     Title(HeaderLimit + 1, {})}

\* descriptions of paragraphs, lines and a tag paragraph
BodyTexts == Strings({"\n", "a", "#"}, MaxBodyText)

\* the enriched articles handed to BlockCreator
BlockArticles ==
    [title : BlockTitles, title_link : {<<"u">>}, author : {<<"w">>},
     description : BodyTexts]

\* the pattern set: one keyword
Patterns == <<<<"k">>>>

\* entries of the ArXiv feed: titles with and without the " (arXiv:...)" tail,
\* descriptions with and without "Abstract:", authors with and without anchors
ArXivTitles ==
    {<<"k">>, <<"x">>,
     <<"x", " ", "(">> \o ArXivTag \o <<"k", ")">>,
     <<"k", " ", "(">> \o ArXivTag \o <<"1", ")", "\n", "k">>}
ArXivLinks == {Http \o <<"u">>, Https \o <<"u">>}
ArXivDescriptions ==
    {<<"d">>, AbstractTag \o <<"d">>,
     <<"x", " ">> \o AbstractTag \o <<" ", "a", "\n", " ", " ", "b">> \o ParagraphEnd \o <<"y">>}
ArXivAuthors ==
    {<<"w">>, <<"A", ",", " ", "B">>,
     AnchorOpen \o <<"\"", "v", "\"", ">", "A">> \o AnchorClose \o <<",">>
         \o AnchorOpen \o <<"\"", ">", "\"", ">", "B">> \o AnchorClose}
ArXivEntries ==
    [title : ArXivTitles, link : ArXivLinks, description : ArXivDescriptions,
     author : ArXivAuthors]

\* entries of the MDPI feed: titles with and without the "<journal> <digit>: "
\* head, summaries with and without apostrophes
MDPITitles ==
    {<<"k">>, <<"x">>, <<"k", "1", ":", " ", "x">>,
     <<"x", "1", ":", " ", "2", ":", " ", "k", "\n", "3", ":", "k">>}
MDPISummaries == {<<"d">>, <<"i", "t", "'", "s", " ", " ", "d">>}
MDPIAuthors == {<<>>, <<<<"A">>>>, <<<<"A">>, <<"B">>>>}
MDPIEntries ==
    [title : MDPITitles, link : {<<"u">>}, summary : MDPISummaries, authors : MDPIAuthors]

\* the classes named by slackbot_settings.PUBLISH, in its order
Publishers == <<"ArXiv", "MDPI">>

EntriesOf(publisher) == IF publisher = "ArXiv" THEN ArXivEntries ELSE MDPIEntries

FormatEnvs ==
    {[gemini |-> g, a |-> t.a, b |-> t.b] :
        g \in GeminiEnvs(OptionalTexts({<<>>, Marker}), {0}), t \in TranslatorEnvs}

----------------------------------------------------------------------------
(* The unit calls: one call of one operation, on any of its inputs *)

TranslatorCall ==
    /\ pc = "idle"
    /\ op = "none"
    /\ \E d \in Descriptions, e \in TranslatorEnvs :
          /\ op' = "ArticleTranslator.__call__"
          /\ args' = <<d>>
          /\ env' = e
          /\ res' = ArticleTranslator(d, e.a, e.b)
    /\ UNCHANGED batchVars

GeminiSummarizeCall ==
    /\ pc = "idle"
    /\ op = "none"
    /\ \E u \in Links, g \in GeminiEnvs(OptionalTexts({Marker}), Elapsed) :
          /\ op' = "ArticleSummarizer.gemini_summarize"
          /\ args' = <<u>>
          /\ env' = g
          /\ res' = GeminiSummarize(u, g)
    /\ UNCHANGED batchVars

SummarizerCall ==
    /\ pc = "idle"
    /\ op = "none"
    /\ \E u \in Links, g \in GeminiEnvs(OptionalTexts(SummaryTexts), {0}) :
          /\ op' = "ArticleSummarizer.__call__"
          /\ args' = <<u>>
          /\ env' = g
          /\ res' = ArticleSummarizer(u, g)
    /\ UNCHANGED batchVars

SetTagsCall ==
    /\ pc = "idle"
    /\ op = "none"
    /\ \E d \in TagDescriptions :
          /\ op' = "BlockCreator._set_tags"
          /\ args' = <<d>>
          /\ env' = <<>>
          /\ res' = Returned(SetTags(d))
    /\ UNCHANGED batchVars

ExtractKeywordCall ==
    /\ pc = "idle"
    /\ op = "none"
    /\ \E k \in DOMAIN Publishers :
          \E article \in EntriesOf(Publishers[k]) :
              /\ op' = "Publisher.extract_keyword"
              /\ args' = <<Publishers[k], article>>
              /\ env' = <<>>
              /\ res' = ExtractKeyword(Publishers[k], article)
    /\ UNCHANGED batchVars

FormatArticleCall ==
    /\ pc = "idle"
    /\ op = "none"
    /\ \E k \in DOMAIN Publishers :
          \E article \in EntriesOf(Publishers[k]), e \in FormatEnvs :
              /\ op' = "Publisher.format_article"
              /\ args' = <<Publishers[k], article, Patterns>>
              /\ env' = e
              /\ res' = FormatArticle(Publishers[k], article, Patterns, e)
    /\ UNCHANGED batchVars

SetHeaderCall ==
    /\ pc = "idle"
    /\ op = "none"
    /\ \E header \in Titles :
          /\ op' = "BlockCreator._set_header"
          /\ args' = <<header>>
          /\ env' = <<>>
          /\ res' = SetHeader(header)
    /\ UNCHANGED batchVars

BlockCreatorCall ==
    /\ pc = "idle"
    /\ op = "none"
    /\ \E article \in BlockArticles :
          /\ op' = "BlockCreator.__call__"
          /\ args' = <<article>>
          /\ env' = <<>>
          /\ res' = BlockCreator(article)
    /\ UNCHANGED batchVars

FormatForBlocksCall ==
    /\ pc = "idle"
    /\ op = "none"
    /\ \E summary \in OptionalTexts(EmphasisTexts \cup LineTexts) :
          /\ op' = "ArticleSummarizer.format_summarize_for_blocks"
          /\ args' = <<summary>>
          /\ env' = <<>>
          /\ res' = Returned(FormatSummarizeForBlocks(summary))
    /\ UNCHANGED batchVars

----------------------------------------------------------------------------
(* run.main: get_articles collects, then the loop of main posts.           *)
(* An entry of a feed is [fresh, article]: the article is the entry as     *)
(* the feed gives it, and fresh tells the date test of publisher.py:103,   *)
(* which reads the publish date and the wall clock anew at every entry.    *)

\* slackbot_settings.PUBLISH = dict(ArXiv="cs.CV", MDPI="remotesensing")
NumFeeds == 2

\* the entries of the feeds of a run: for the ArXiv feed a title that matches
\* and one that matches only before parse_title, a description with and
\* without "Abstract:"; for the MDPI feed a title that matches only before
\* parse_title and one that matches after it
BatchArticles(publisher) ==
    IF publisher = "ArXiv"
    THEN [title : {<<"k">>, <<"x", " ", "(">> \o ArXivTag \o <<"k", ")">>},
          link : {Http \o <<"u">>},
          description : {<<"d">>, AbstractTag \o <<"d">>},
          author : {<<"w">>}]
    ELSE [title : {<<"k", "1", ":", " ", "x">>, <<"x", "1", ":", " ", "k">>},
          link : {<<"u">>},
          summary : {<<"d">>},
          authors : {<<<<"w">>>>}]

Entries(publisher) == [fresh : BOOLEAN, article : BatchArticles(publisher)]

\* the providers during a run: all answer, or all fail
BatchEnvs ==
    {e \in FormatEnvs :
        /\ e.gemini.lite = GeminiNotCalled
        /\ e.b = NotCalled
        /\ \/ /\ e.gemini.primary.kind = "ok"
              /\ e.gemini.primary.text = Some(Marker)
              /\ e.a = [kind |-> "ok", text |-> <<"x">>]
           \/ /\ e.gemini.primary.kind = "Exception"
              /\ e.a.kind = "Exception"}

\* the feeds as feedparser gives them, one for each publisher of PUBLISH
FeedLists ==
    {<<a, m>> : a \in Strings(Entries(Publishers[1]), MaxEntries),
                m \in Strings(Entries(Publishers[2]), MaxEntries)}

EnrichEvent(id) ==
    [ev |-> "enrich", art |-> id, idx |-> 0, chan |-> 0, ok |-> TRUE, empty |-> FALSE]

PostEvent(article, idx, chan, ok) ==
    [ev |-> "post", art |-> article.title, idx |-> idx, chan |-> chan, ok |-> ok,
     empty |-> (article.description = <<>>)]

\* [i for i in list(...) if i is not None]
RECURSIVE NotNone(_)
NotNone(list) ==
    IF list = <<>> THEN <<>>
    ELSE IF list[1] = None THEN NotNone(Tail(list))
    ELSE <<list[1][1]>> \o NotNone(Tail(list))

Visiting == pc = "collect" /\ fi <= NumFeeds /\ ei <= Len(feeds[fi])

\* the test of publisher.py:106-109 on the entry <<feed, index>>
Hit(id) ==
    Matches(Patterns, ParseTitle(Publishers[id[1]], feeds[id[1]][id[2]].article.title))

\* if updated_date < today: yield None
YieldNone ==
    /\ Visiting
    /\ ~feeds[fi][ei].fresh
    /\ items' = Append(items, None)
    /\ ei' = ei + 1
    /\ UNCHANGED <<pc, feeds, nchan, fi, articles, ai, ci, log>>
    /\ UNCHANGED unitVars

\* the variant that hands a fresh entry to format_article whatever its title
SkipEntryPromoted ==
    /\ Visiting
    /\ feeds[fi][ei].fresh
    /\ ~Hit(<<fi, ei>>)
    /\ \E e \in BatchEnvs :
          LET r == FormatArticle(Publishers[fi], feeds[fi][ei].article, Patterns, e)
          IN  IF r.raised = "none"
              THEN /\ items' = Append(items, Some(r.value))
                   /\ ei' = ei + 1
                   /\ pc' = pc
              ELSE /\ pc' = "raised"
                   /\ UNCHANGED <<items, ei>>
    /\ log' = Append(log, EnrichEvent(<<fi, ei>>))
    /\ UNCHANGED <<feeds, nchan, fi, articles, ai, ci>>
    /\ UNCHANGED unitVars

\* a fresh entry whose title matches no pattern: nothing is yielded
SkipEntry ==
    /\ Visiting
    /\ feeds[fi][ei].fresh
    /\ ~Hit(<<fi, ei>>)
    /\ ei' = ei + 1
    /\ UNCHANGED <<pc, feeds, nchan, fi, items, articles, ai, ci, log>>
    /\ UNCHANGED unitVars

\* a fresh entry whose title matches: yield self.format_article(article, patterns).
\* The record is yielded when format_article returns; when it raises, nothing
\* catches the exception up to main.
YieldArticle ==
    /\ Visiting
    /\ feeds[fi][ei].fresh
    /\ Hit(<<fi, ei>>)
    /\ \E e \in BatchEnvs :
          LET r == FormatArticle(Publishers[fi], feeds[fi][ei].article, Patterns, e)
          IN  IF r.raised = "none"
              THEN /\ items' = Append(items, Some(r.value))
                   /\ ei' = ei + 1
                   /\ pc' = pc
              ELSE /\ pc' = "raised"
                   /\ UNCHANGED <<items, ei>>
    /\ log' = Append(log, EnrichEvent(<<fi, ei>>))
    /\ UNCHANGED <<feeds, nchan, fi, articles, ai, ci>>
    /\ UNCHANGED unitVars

\* the generator of one feed is exhausted: articles.extend(the items not None)
ExtendArticles ==
    /\ pc = "collect"
    /\ fi <= NumFeeds
    /\ ei > Len(feeds[fi])
    /\ articles' = articles \o NotNone(items)
    /\ items' = <<>>
    /\ fi' = fi + 1
    /\ ei' = 1
    /\ UNCHANGED <<pc, feeds, nchan, ai, ci, log>>
    /\ UNCHANGED unitVars

\* get_articles returns the list and the loop of main starts
ReturnArticles ==
    /\ pc = "collect"
    /\ fi > NumFeeds
    /\ pc' = "post"
    /\ ai' = 1
    /\ ci' = 1
    /\ UNCHANGED <<feeds, nchan, fi, ei, items, articles, log>>
    /\ UNCHANGED unitVars

\* the body of the loop of main (run.py:69-96) runs once for each article of
\* the list.  The three steps below are that body; they are no part of
\* BatchNext, as the list is empty in every behaviour of BatchSpec.
Posting == pc = "post" /\ ai <= Len(articles)

\* slack.chat_postMessage(...) returns
PostMessage ==
    /\ Posting
    /\ ci <= nchan
    /\ log' = Append(log, PostEvent(articles[ai], ai, ci, TRUE))
    /\ ci' = ci + 1
    /\ UNCHANGED <<pc, feeds, nchan, fi, ei, items, articles, ai>>
    /\ UNCHANGED unitVars

\* slack.chat_postMessage(...) raises: nothing in main catches it
PostMessageRaises ==
    /\ Posting
    /\ ci <= nchan
    /\ log' = Append(log, PostEvent(articles[ai], ai, ci, FALSE))
    /\ pc' = "raised"
    /\ UNCHANGED <<feeds, nchan, fi, ei, items, articles, ai, ci>>
    /\ UNCHANGED unitVars

\* the channels are exhausted: the next article of the list
NextArticle ==
    /\ Posting
    /\ ci > nchan
    /\ ai' = ai + 1
    /\ ci' = 1
    /\ UNCHANGED <<pc, feeds, nchan, fi, ei, items, articles, log>>
    /\ UNCHANGED unitVars

\* the list is exhausted: main returns
MainReturns ==
    /\ pc = "post"
    /\ ai > Len(articles)
    /\ pc' = "done"
    /\ UNCHANGED <<feeds, nchan, fi, ei, items, articles, ai, ci, log>>
    /\ UNCHANGED unitVars

----------------------------------------------------------------------------
(* Specifications *)

BatchIdle ==
    /\ pc = "idle"
    /\ feeds = <<>>
    /\ nchan = 0
    /\ fi = 0
    /\ ei = 0
    /\ items = <<>>
    /\ articles = <<>>
    /\ ai = 0
    /\ ci = 0
    /\ log = <<>>

UnitIdle ==
    /\ op = "none"
    /\ args = <<>>
    /\ env = <<>>
    /\ res = <<>>

Init == UnitIdle /\ BatchIdle

Next ==
    \/ TranslatorCall
    \/ GeminiSummarizeCall
    \/ SummarizerCall
    \/ SetTagsCall
    \/ ExtractKeywordCall
    \/ FormatArticleCall
    \/ FormatForBlocksCall
    \/ SetHeaderCall
    \/ BlockCreatorCall

Spec == Init /\ [][Next]_vars

\* run.main starts: the feeds are fetched, zip(slacks, POST_CHANNEL) has nchan pairs
BatchInit ==
    /\ UnitIdle
    /\ pc = "collect"
    /\ feeds \in FeedLists
    /\ nchan \in 0..MaxChannels
    /\ fi = 1
    /\ ei = 1
    /\ items = <<>>
    /\ articles = <<>>
    /\ ai = 0
    /\ ci = 0
    /\ log = <<>>

\* run.main as the code stands: get_articles returns the empty list or raises,
\* so the loop of main ends at once
BatchNext ==
    \/ YieldNone
    \/ SkipEntry
    \/ YieldArticle
    \/ ExtendArticles
    \/ ReturnArticles
    \/ MainReturns

BatchSpec == BatchInit /\ [][BatchNext]_vars

----------------------------------------------------------------------------
(* Claims *)

IsTranslatorCall == op = "ArticleTranslator.__call__"
IsGeminiCall == op = "ArticleSummarizer.gemini_summarize"
IsSummarizerCall == op = "ArticleSummarizer.__call__"
IsSetTagsCall == op = "BlockCreator._set_tags"
IsFormatCall == op = "Publisher.format_article"

\* C1: ArticleTranslator.__call__ never raises: it returns A's output when A
\* succeeds, B's output when A raises DeepLException and B succeeds, and the
\* input text unchanged in every other case, B failing after A included.
C1_TranslatorNeverRaises ==
    IsTranslatorCall =>
        /\ res.raised = "none"
        /\ res.value = IF env.a.kind = "ok" THEN env.a.text
                       ELSE IF env.a.kind = "DeepLException" /\ env.b.kind = "ok"
                            THEN env.b.text
                            ELSE args[1]

\* C2: format_article never raises: whatever the summarization and translation
\* providers do, it returns an article record whose description is a string.
C2_FormatArticleNeverRaises ==
    IsFormatCall =>
        /\ res.raised = "none"
        /\ Len(res.value.description) >= 0

\* no behaviour of run.main reaches the body of its loop: the list of
\* get_articles is empty whenever it returns, and nothing is ever posted
NoArticleReachesLoop ==
    /\ articles = <<>>
    /\ ~Posting
    /\ \A k \in DOMAIN log : log[k].ev # "post"

\* C3: main never posts an article whose description is empty: for every
\* article of the list get_articles returned, chat_postMessage is called only
\* if its description is not empty.
C3_NoEmptyDescriptionPosted ==
    \A k \in DOMAIN log : log[k].ev = "post" => ~log[k].empty

\* C4: a failed post does not abort the batch: when main has ended, every
\* article after one whose post raised has had its post attempted.
C4_BatchContinuesAfterFailedPost ==
    pc \in {"done", "raised"} =>
        \A k \in DOMAIN log :
            (log[k].ev = "post" /\ ~log[k].ok) =>
                \A j \in (log[k].idx + 1)..Len(articles) :
                    \E m \in DOMAIN log :
                        m > k /\ log[m].ev = "post" /\ log[m].idx = j

\* feed order of two entries <<feed, entry>>
Before(a, b) == a[1] < b[1] \/ (a[1] = b[1] /\ a[2] < b[2])

\* the entries <<feed, index>> of the run
EntryIds == {id \in (1..NumFeeds) \X (1..MaxEntries) : id[2] <= Len(feeds[id[1]])}

\* the entry <<feed, index>> is not older than today and its title matches
Promotable(id) == feeds[id[1]][id[2]].fresh /\ Hit(id)

\* the title under which the article of an entry is posted
PostedTitle(id) == ParseTitle(Publishers[id[1]], feeds[id[1]][id[2]].article.title)

\* C5: articles are processed one at a time end to end: when main has ended,
\* for any two matched entries a and b with a earlier in feed order, a has
\* been posted, and posted before the enrichment of b began.
C5_PostedBeforeNextEnrichment ==
    pc \in {"done", "raised"} =>
        \A a, b \in {id \in EntryIds : Promotable(id)} :
            Before(a, b) =>
                \E j, k \in DOMAIN log :
                    /\ j < k
                    /\ log[j].ev = "post" /\ log[j].art = PostedTitle(a)
                    /\ log[k].ev = "enrich" /\ log[k].art = b

\* the floor and the elapsed time of the call that was followed by a sleep
SleptFloor == IF env.primary.kind = "ok" THEN PrimaryFloor ELSE LiteFloor
SleptElapsed == IF env.primary.kind = "ok" THEN env.primary.elapsed ELSE env.lite.elapsed

\* C6 as stated: the sleep is max(F - trunc(elapsed), 0) + 1 seconds, so the
\* next request is never issued earlier than call_start + F + 1.
C6_SleepTruncatesElapsed ==
    (IsGeminiCall /\ res.sleeps # <<>>) =>
        /\ res.sleeps[1] = Max(SleptFloor - (SleptElapsed \div Resolution), 0) + 1
        /\ SleptElapsed + res.sleeps[1] * Resolution >= (SleptFloor + 1) * Resolution

\* C6 as amended: a successful call is followed by one sleep of s whole seconds,
\* s = max(trunc(F - elapsed), 0) + 1: s = 1 when elapsed exceeds F, and else
\* s - 1 <= F - elapsed < s; so the next request is issued later than
\* call_start + F, and not later than call_start + F + 1 unless the call took longer.
C6_SleepTruncatesDifference ==
    IsGeminiCall =>
        /\ Len(res.sleeps) = IF env.primary.kind = "ok"
                                  \/ (env.primary.kind = "APIError"
                                        /\ env.primary.code = RateLimitCode
                                        /\ env.lite.kind = "ok")
                             THEN 1 ELSE 0
        /\ res.sleeps # <<>> =>
              LET s == res.sleeps[1]
                  left == SleptFloor * Resolution - SleptElapsed
              IN  /\ s >= 1
                  /\ left < 0 => s = 1
                  /\ left >= 0 => ((s - 1) * Resolution <= left /\ left < s * Resolution)
                  /\ SleptElapsed + s * Resolution > SleptFloor * Resolution
                  /\ SleptElapsed + s * Resolution
                        <= Max(SleptFloor * Resolution, SleptElapsed) + Resolution

\* a primary call that took a fractional number of seconds below the floor:
\* the next request may be issued before call_start + F + 1
C6_Witness ==
    /\ IsGeminiCall
    /\ env.primary.kind = "ok"
    /\ env.primary.elapsed % Resolution # 0
    /\ env.primary.elapsed < PrimaryFloor * Resolution
    /\ Len(res.sleeps) = 1
    /\ env.primary.elapsed + res.sleeps[1] * Resolution < (PrimaryFloor + 1) * Resolution

\* the text the generative model gave to the summarizer, if any
Generated ==
    IF env.primary.kind = "ok" THEN env.primary.text
    ELSE IF env.primary.kind = "APIError" /\ env.primary.code = RateLimitCode
            /\ env.lite.kind = "ok"
         THEN env.lite.text
         ELSE None

HasMarker(text) == \E i \in 1..Len(text) : OccursAt(text, Marker, i)

\* C7: ArticleSummarizer.__call__ never raises and returns a string: the empty
\* string when the primary call fails with a non-429 provider error, when it
\* fails with 429 and the retry fails too, on any other exception, and when
\* the generated text lacks the marker; otherwise the normalized suffix of the
\* generated text from the last occurrence of the marker.
C7_SummarizerReturnsString ==
    IsSummarizerCall =>
        /\ res.raised = "none"
        /\ (env.primary.kind = "APIError" /\ env.primary.code # RateLimitCode)
              => res.value = <<>>
        /\ (env.primary.kind = "APIError" /\ env.primary.code = RateLimitCode
              /\ env.lite.kind # "ok") => res.value = <<>>
        /\ env.primary.kind = "Exception" => res.value = <<>>
        /\ (Generated # None /\ ~HasMarker(Generated[1])) => res.value = <<>>
        /\ Generated = None => res.value = <<>>
        /\ (Generated # None /\ HasMarker(Generated[1])) =>
              \E i \in 1..Len(Generated[1]) :
                  /\ OccursAt(Generated[1], Marker, i)
                  /\ \A j \in (i + 1)..Len(Generated[1]) : ~OccursAt(Generated[1], Marker, j)
                  /\ res.value
                        = FormatSummarizeForBlocks(
                              Some(SubSeq(Generated[1], i, Len(Generated[1]))))

\* the generated text holds the marker twice, after a preamble
C7_Witness ==
    /\ IsSummarizerCall
    /\ Generated # None
    /\ \E i, j \in 2..Len(Generated[1]) :
          i < j /\ OccursAt(Generated[1], Marker, i) /\ OccursAt(Generated[1], Marker, j)
    /\ res.value # <<>>

\* C8: one gemini_summarize call requests the primary model exactly once and
\* first; the lighter model at most once, only after the primary request failed
\* with code 429, with the same prompt and configuration; after a primary
\* failure with another code no further request: at most two requests.
C8_RequestOrder ==
    (IsGeminiCall \/ IsSummarizerCall) =>
        /\ Len(res.requests) \in {1, 2}
        /\ res.requests[1].model = PrimaryModel
        /\ Cardinality({k \in DOMAIN res.requests : res.requests[k].model = PrimaryModel}) = 1
        /\ Len(res.requests) = 2 =>
              /\ env.primary.kind = "APIError"
              /\ env.primary.code = RateLimitCode
              /\ res.requests[2].model = LiteModel
              /\ res.requests[2].contents = res.requests[1].contents
              /\ res.requests[2].config = res.requests[1].config
        /\ (env.primary.kind = "APIError" /\ env.primary.code # RateLimitCode)
              => Len(res.requests) = 1
        /\ (env.primary.kind = "APIError" /\ env.primary.code = RateLimitCode)
              => Len(res.requests) = 2

\* the primary request failed with code 429 and the lighter model was requested
C8_Witness ==
    /\ IsGeminiCall
    /\ env.primary.kind = "APIError"
    /\ env.primary.code = RateLimitCode
    /\ Len(res.requests) = 2

\* the final paragraph of the description handed to _set_tags
LastParagraph ==
    LET paragraphs == Split(args[1], <<"\n", "\n">>) IN paragraphs[Len(paragraphs)]

\* it yields no tag: it is empty or holds only spaces and "#"
YieldsNoTag == \A i \in DOMAIN LastParagraph : LastParagraph[i] \in {" ", "#"}

\* the child text elements of the hashtag block
TagBlockElements == res.value.elements[1].elements

\* C9 as stated: when the final paragraph yields no tag, _set_tags returns a
\* rich-text block with no child text element.
C9_EmptyHashtagBlock ==
    (IsSetTagsCall /\ YieldsNoTag) =>
        /\ res.raised = "none"
        /\ res.value.type = "rich_text"
        /\ TagBlockElements = <<>>

\* C9 as amended: when the final paragraph yields no tag, _set_tags does not
\* fail and returns a rich-text block of one section whose only child is the
\* leading "#" run, italic and code.
C9_LoneHashRun ==
    (IsSetTagsCall /\ YieldsNoTag) =>
        /\ res.raised = "none"
        /\ res.value.type = "rich_text"
        /\ Len(res.value.elements) = 1
        /\ res.value.elements[1].type = "rich_text_section"
        /\ Len(TagBlockElements) = 1
        /\ TagBlockElements[1].text = <<"#">>
        /\ TagBlockElements[1].italic
        /\ TagBlockElements[1].code

\* a description of two paragraphs whose last one holds only "#" and spaces
C9_Witness ==
    /\ IsSetTagsCall
    /\ YieldsNoTag
    /\ LastParagraph # <<>>
    /\ Len(args[1]) > Len(LastParagraph)
    /\ Len(TagBlockElements) = 1

\* C10 as stated: for n >= 1 tags the last element of the block is the run of
\* the last tag: no separator follows it.
C10_NoTrailingSeparator ==
    (IsSetTagsCall /\ ~YieldsNoTag) =>
        LET tags == TagText(args[1])
            last == TagBlockElements[Len(TagBlockElements)]
        IN  /\ last.text = tags[Len(tags)]
            /\ last.italic
            /\ last.code

\* C10 as amended: for n >= 1 tags the block holds 3n elements: for each tag,
\* in the original order, a "#" run and the tag's run, both italic and code,
\* then one unstyled single-space run; so one space run separates consecutive
\* tags and the last element is the space run after the last tag.
C10_TagRunsInOrder ==
    (IsSetTagsCall /\ ~YieldsNoTag) =>
        LET tags == TagText(args[1])
            n == Len(tags)
            e == TagBlockElements
        IN  /\ n >= 1
            /\ Len(e) = 3 * n
            /\ \A k \in 1..n :
                  /\ e[3 * k - 2].text = <<"#">>
                  /\ e[3 * k - 2].italic /\ e[3 * k - 2].code
                  /\ e[3 * k - 1].text = tags[k]
                  /\ e[3 * k - 1].italic /\ e[3 * k - 1].code
                  /\ e[3 * k].text = <<" ">>
                  /\ ~e[3 * k].italic /\ ~e[3 * k].code

\* the paragraph "#a #b": two different tags, a space after each
C10_Witness ==
    /\ IsSetTagsCall
    /\ TagText(args[1]) = <<<<"a">>, <<"b">>>>
    /\ Len(TagBlockElements) = 6
    /\ TagBlockElements[6].text = <<" ">>

IsFormatForBlocksCall == op = "ArticleSummarizer.format_summarize_for_blocks"

\* C11: format_summarize_for_blocks is idempotent: applied to its own result
\* it gives that result again, for every text; and for None it returns the
\* empty string.
C11_NormalizeIdempotent ==
    IsFormatForBlocksCall =>
        /\ res.raised = "none"
        /\ args[1] = None => res.value = <<>>
        /\ FormatSummarizeForBlocks(Some(res.value)) = res.value

IsSetHeaderCall == op = "BlockCreator._set_header"

\* C12: _set_header returns one header block holding the whole title when the
\* title has at most 150 characters; when it has more and one of its first 150
\* characters is a space, two header blocks split at the last such space,
\* whose texts put together in order give the title again: the first ends
\* before the space and the second begins with it.
C12_HeaderSplit ==
    IsSetHeaderCall =>
        LET title == args[1]
        IN  /\ Len(title) <= HeaderLimit =>
                  /\ res.raised = "none"
                  /\ Len(res.value) = 1
                  /\ res.value[1].type = "header"
                  /\ res.value[1].text.text = title
            /\ (Len(title) > HeaderLimit /\ \E i \in 1..HeaderLimit : title[i] = " ") =>
                  /\ res.raised = "none"
                  /\ Len(res.value) = 2
                  /\ res.value[1].type = "header"
                  /\ res.value[2].type = "header"
                  /\ res.value[1].text.text \o res.value[2].text.text = title
                  /\ \E k \in 1..HeaderLimit :
                        /\ title[k] = " "
                        /\ \A j \in (k + 1)..HeaderLimit : title[j] # " "
                        /\ Len(res.value[1].text.text) = k - 1
                        /\ res.value[2].text.text[1] = " "

\* a title longer than the limit with spaces at its 149th, 150th and 151st
\* characters: it is split before the 150th
C12_Witness ==
    /\ IsSetHeaderCall
    /\ Len(args[1]) > HeaderLimit + 1
    /\ args[1][HeaderLimit - 1] = " "
    /\ args[1][HeaderLimit] = " "
    /\ args[1][HeaderLimit + 1] = " "
    /\ res.raised = "none"
    /\ Len(res.value) = 2
    /\ Len(res.value[1].text.text) = HeaderLimit - 1

\* the entries of the feed being read that the generator has gone past
Visited == IF fi \in 1..NumFeeds THEN 1..(ei - 1) ELSE {}

\* the record is what format_article returns for the entry
FormattedFrom(record, id) ==
    \E e \in BatchEnvs :
        FormatArticle(Publishers[id[1]], feeds[id[1]][id[2]].article, Patterns, e)
            = Returned(record)

\* C13: get_articles promotes an entry only if its publish date is not older
\* than today and its parsed title matches a pattern: only such entries are
\* passed to format_article, and every item yielded that is not None, and
\* every article kept, is what format_article returned for such an entry;
\* every entry older than today that is gone past has yielded one None and
\* no more; the entries are gone past once each, in feed order.
C13_OnlyFreshMatchesPromoted ==
    /\ \A k \in DOMAIN log : log[k].ev = "enrich" => Promotable(log[k].art)
    /\ \A j, k \in DOMAIN log :
          (j < k /\ log[j].ev = "enrich" /\ log[k].ev = "enrich")
              => Before(log[j].art, log[k].art)
    /\ \A k \in DOMAIN articles :
          \E id \in EntryIds : Promotable(id) /\ FormattedFrom(articles[k], id)
    /\ fi \in 1..NumFeeds =>
          /\ \A k \in DOMAIN items :
                items[k] # None =>
                    \E n \in Visited :
                        Promotable(<<fi, n>>) /\ FormattedFrom(items[k][1], <<fi, n>>)
          /\ Cardinality({k \in DOMAIN items : items[k] = None})
                = Cardinality({n \in Visited : ~feeds[fi][n].fresh})
          /\ Len(items)
                = Cardinality({n \in Visited : ~feeds[fi][n].fresh \/ Hit(<<fi, n>>)})
          /\ \A n \in Visited :
                Promotable(<<fi, n>>) =>
                    \E k \in DOMAIN log : log[k] = EnrichEvent(<<fi, n>>)
          /\ (pc = "raised" /\ ei <= Len(feeds[fi])) =>
                /\ Promotable(<<fi, ei>>)
                /\ log[Len(log)] = EnrichEvent(<<fi, ei>>)

\* the second feed: an old entry gave the sentinel and the fresh matching
\* entry after it was passed to format_article, after a first feed with a
\* fresh entry that matches only before parse_title and was passed over
C13_Witness ==
    /\ pc = "raised"
    /\ fi = 2
    /\ ei = 2
    /\ items = <<None>>
    /\ log = <<EnrichEvent(<<2, 2>>)>>
    /\ \E n \in DOMAIN feeds[1] :
          /\ feeds[1][n].fresh
          /\ ~Hit(<<1, n>>)
          /\ Matches(Patterns, feeds[1][n].article.title)

IsBlockCreatorCall == op = "BlockCreator.__call__"

\* the paragraphs of a description other than the last
BodyParagraphs(description) == DropLast(Split(description, <<"\n", "\n">>))

HasLineFeed(s) == \E i \in DOMAIN s : s[i] = "\n"

\* the title has at most 150 characters or a space among its first 150
Splittable(title) ==
    Len(title) <= HeaderLimit \/ \E i \in 1..HeaderLimit : title[i] = " "

\* the section shows the paragraph p: its first line in bold between two line
\* feeds, then its other lines
SectionOf(section, p) ==
    /\ section.type = "rich_text_section"
    /\ Len(section.elements) = 2
    /\ section.elements[1].style = [bold |-> TRUE]
    /\ LET t == section.elements[1].text
       IN  /\ Len(t) >= 2
           /\ t[1] = "\n"
           /\ t[Len(t)] = "\n"
           /\ ~HasLineFeed(SubSeq(t, 2, Len(t) - 1))
    /\ section.elements[1].text \o section.elements[2].text
          = IF HasLineFeed(p) THEN <<"\n">> \o p ELSE <<"\n">> \o p \o <<"\n">>

\* divider, header block(s), link block, hashtag block, body block, the body
\* holding one section for each paragraph but the last, in paragraph order
BlocksInOrder(blocks, article) ==
    LET n == Len(blocks)
        paragraphs == BodyParagraphs(article.description)
    IN  /\ n >= 5
        /\ blocks[1] = [type |-> "divider"]
        /\ \A k \in 2..(n - 3) : blocks[k].type = "header"
        /\ Join([k \in 1..(n - 4) |-> blocks[k + 1].text.text], <<>>) = article.title
        /\ Len(article.title) <= HeaderLimit => n = 5
        /\ Len(article.title) > HeaderLimit => n = 6
        /\ blocks[n - 2].type = "rich_text"
        /\ blocks[n - 2].elements[1].elements
              = <<[type |-> "link", url |-> article.title_link]>>
        /\ blocks[n - 1] = SetTags(article.description)
        /\ blocks[n].type = "rich_text"
        /\ Len(blocks[n].elements) = Len(paragraphs)
        /\ \A k \in 1..Len(paragraphs) : SectionOf(blocks[n].elements[k], paragraphs[k])

\* C14, as stated: for every article BlockCreator.__call__ returns the blocks
\* divider, header block(s), link block, hashtag block, body block, of length 5
\* when the title gives one header, the body holding exactly one section for
\* each paragraph of the description other than the last, in paragraph order,
\* sections of empty title or body included.
C14_BlocksForEveryArticle ==
    IsBlockCreatorCall =>
        /\ res.raised = "none"
        /\ BlocksInOrder(res.value, args[1])

\* C14, amended: for every article whose title has at most 150 characters or
\* a space among its first 150, BlockCreator.__call__ returns the blocks
\* divider, header block(s), link block, hashtag block, body block, of length 5
\* with one header and 6 with two, the body holding exactly one section for
\* each paragraph of the description other than the last, in paragraph order,
\* sections of empty title or body included; for every other article the call
\* raises IndexError and returns no blocks.
C14_BlocksWhenTitleSplits ==
    IsBlockCreatorCall =>
        IF Splittable(args[1].title)
        THEN /\ res.raised = "none"
             /\ BlocksInOrder(res.value, args[1])
        ELSE res.raised = "IndexError"

\* five blocks whose body has two sections, one of a title with an empty body
\* and one with both empty, before a tag paragraph
C14_Witness ==
    /\ IsBlockCreatorCall
    /\ res.raised = "none"
    /\ Len(res.value) = 5
    /\ LET body == res.value[5].elements
       IN  /\ Len(body) = 2
           /\ body[1].elements[1].text = <<"\n", "a", "\n">>
           /\ body[1].elements[2].text = <<>>
           /\ body[2].elements[1].text = <<"\n", "\n">>
           /\ body[2].elements[2].text = <<>>
    /\ Len(res.value[4].elements[1].elements) > 1

====
